---- MODULE Spec2Model ----
(***************************************************************************)
(* Viewer presence and stream liveness of the aiko-server socket backend.  *)
(*                                                                         *)
(* Presence: the two module-level maps agentViewers and socketToStream and *)
(* the socket handlers join_agent_stream, leave_agent_stream, disconnect.  *)
(* Liveness: the StreamingStatus collection, the heartbeat cleanup job and *)
(* the two writers PUT /api/scenes/:agentId and update_streaming_status.   *)
(*                                                                         *)
(* A JavaScript Map is a function whose DOMAIN is the set of keys present. *)
(* Every synchronous handler is one action; the async cleanup job is split *)
(* at its awaits (find, save), where other handlers can run.               *)
(***************************************************************************)
EXTENDS Integers, Sequences, FiniteSets, TLC

\* Bounds of the model.
MaxSockets == 2
\* Date.now() is observed on a grid of ClockStep, MaxTicks steps long.
MaxTicks == 7
MaxPeriods == 4
\* new_like / new_comment events handled, per kind.
MaxEvents == 2

\* Milliseconds.
ClockStep == 5000
HeartbeatTimeout == 30000
SweepPeriod == 15000

SocketIds == 1 .. MaxSockets
\* Identifiers a client may send to join/leave; "" is the falsy one.
StreamIds == {"", "A", "B"}
\* Identifiers of StreamingStatus documents (valid UUIDs in the program).
AgentIds == {"A", "B"}
SweepIds == {"w1"}
RunIds == {"w1", "w2"}
\* The uniqueness flags of a StreamingStatus document.
Flags == {"isAiko", "isBall", "isDegenSpartanAI"}
\* data.agentId of a new_like / new_comment event: absent or an agent.
EventAgents == {"", "A"}

\* Map.get() of an absent key.
Undefined == "undefined"

VARIABLES
    connected,       \* socket ids whose 'connection' handler has run
    closed,          \* socket ids whose 'disconnect' handler has run
    agentViewers,    \* Map<string, Set<string>>: agentId -> socket ids
    socketToStream,  \* Map<string, string>: socket id -> agentId
    emitted,         \* events emitted by the last handler step, in order
    emitter,         \* the handler that emitted them
    viewersResponse, \* res.json of GET /api/agents/:agentId/viewers, until
                     \* the next socket event is handled
    server,          \* "running", "closing" (io.close called) or "exited"
    lastCall,        \* the last join / leave / disconnect that was handled
    prevCall,        \* the one handled before lastCall
    now,             \* Date.now()
    streamingStatus, \* the StreamingStatus collection: agentId -> document
    sweep,           \* the runs of the heartbeat cleanup job
    flagged,         \* flag -> agentIds of the documents that have it true
    likeCount,       \* let likeCount
    commentCount,    \* let commentCount
    stored,          \* number of documents in the Like and Comment collections
    saving           \* handlers awaiting like.save() / newComment.save()

presenceVars == <<connected, closed, agentViewers, socketToStream, lastCall,
                  prevCall>>
livenessVars == <<now, streamingStatus, sweep>>
engagementVars == <<likeCount, commentCount, stored, saving>>
vars == <<connected, closed, agentViewers, socketToStream, emitted, emitter,
          viewersResponse, server, lastCall, prevCall, now, streamingStatus,
          sweep, flagged, likeCount, commentCount, stored, saving>>

(***************************************************************************)
(* JavaScript helpers                                                      *)
(***************************************************************************)
\* if (x) on a string or undefined
Truthy(v) == v \notin {"", Undefined}

MapGet(m, k) == IF k \in DOMAIN m THEN m[k] ELSE Undefined

MapSet(m, k, v) == [x \in DOMAIN m \cup {k} |-> IF x = k THEN v ELSE m[x]]

MapDelete(m, k) == [x \in DOMAIN m \ {k} |-> m[x]]

EmptyMap == [x \in {} |-> {}]

\* The orders in which the elements of S may be enumerated (the entries of
\* a Map, the documents returned by a query).
Orders(S) ==
    {o \in [1 .. Cardinality(S) -> S] :
        \A j, k \in 1 .. Cardinality(S) : j # k => o[j] # o[k]}

\* agentViewers.get(agentId)?.delete(id)
SetDelete(viewers, agentId, id) ==
    IF agentId \in DOMAIN viewers
    THEN [viewers EXCEPT ![agentId] = @ \ {id}]
    ELSE viewers

\* ViewerCount with the size of the Map for the size of the Set.
ViewerCountMapSize(viewers, agentId) == Cardinality(DOMAIN viewers)

\* agentViewers.get(agentId)?.size || 0
ViewerCount(viewers, agentId) ==
    IF agentId \in DOMAIN viewers THEN Cardinality(viewers[agentId]) ELSE 0

(***************************************************************************)
(* Events                                                                  *)
(***************************************************************************)
Event(name, payload) == [name |-> name, payload |-> payload]

\* The mapping built by emitStreamCounts: one entry per key of agentViewers.
StreamCounts(viewers) == [a \in DOMAIN viewers |-> Cardinality(viewers[a])]

emitStreamCounts(viewers) == <<Event("stream_counts", StreamCounts(viewers))>>

(***************************************************************************)
(* Presence handlers                                                       *)
(***************************************************************************)
\* JoinViewers as far as the removal from the previous stream: the maps as a
\* reader would find them if the handler gave up control before the add.
JoinViewersRemoveOnly(viewers, streams, id, agentId) ==
    LET previousStream == MapGet(streams, id)
    IN  IF Truthy(previousStream)
        THEN SetDelete(viewers, previousStream, id)
        ELSE viewers

JoinViewers(viewers, streams, id, agentId) ==
    LET previousStream == MapGet(streams, id)
        v1 == IF Truthy(previousStream)
              THEN SetDelete(viewers, previousStream, id)
              ELSE viewers
        v2 == IF agentId \notin DOMAIN v1 THEN MapSet(v1, agentId, {}) ELSE v1
    IN  [v2 EXCEPT ![agentId] = @ \cup {id}]

\* LeaveViewers with viewerCount read before the socket is removed.
LeaveViewersCountFirst(viewers, id, agentId) ==
    LET viewerCount == ViewerCount(viewers, agentId)
        v1 == SetDelete(viewers, agentId, id)
    IN  IF viewerCount = 0 THEN MapDelete(v1, agentId) ELSE v1

LeaveViewers(viewers, id, agentId) ==
    LET v1 == SetDelete(viewers, agentId, id)
        viewerCount == ViewerCount(v1, agentId)
    IN  IF viewerCount = 0 THEN MapDelete(v1, agentId) ELSE v1

Call(op, id, agentId) == [op |-> op, id |-> id, agentId |-> agentId]

\* io.on('connection')
Connect(id) ==
    /\ server = "running"
    /\ id \notin connected \cup closed
    /\ connected' = connected \cup {id}
    /\ emitter' = "connection"
    /\ emitted' = <<Event("peer_count", [count |-> Cardinality(connected')])>>
    /\ UNCHANGED <<closed, agentViewers, socketToStream, lastCall, prevCall>>
    /\ UNCHANGED livenessVars
    /\ viewersResponse' = <<>>
    /\ UNCHANGED server
    /\ UNCHANGED <<flagged, engagementVars>>

\* Join with emitStreamCounts() called before the maps are updated.
JoinEmitsFirst(id, agentId) ==
    /\ server # "exited"
    /\ id \in connected
    /\ agentViewers' = JoinViewers(agentViewers, socketToStream, id, agentId)
    /\ socketToStream' = MapSet(socketToStream, id, agentId)
    /\ emitter' = "join_agent_stream"
    /\ emitted' = emitStreamCounts(agentViewers)
    /\ lastCall' = Call("join", id, agentId)
    /\ prevCall' = lastCall
    /\ UNCHANGED <<connected, closed>>
    /\ UNCHANGED livenessVars
    /\ viewersResponse' = <<>>
    /\ UNCHANGED server
    /\ UNCHANGED <<flagged, engagementVars>>

\* socket.on('join_agent_stream')
Join(id, agentId) ==
    /\ server # "exited"
    /\ id \in connected
    /\ agentViewers' = JoinViewers(agentViewers, socketToStream, id, agentId)
    /\ socketToStream' = MapSet(socketToStream, id, agentId)
    /\ emitter' = "join_agent_stream"
    /\ emitted' = emitStreamCounts(agentViewers')
    /\ lastCall' = Call("join", id, agentId)
    /\ prevCall' = lastCall
    /\ UNCHANGED <<connected, closed>>
    /\ UNCHANGED livenessVars
    /\ viewersResponse' = <<>>
    /\ UNCHANGED server
    /\ UNCHANGED <<flagged, engagementVars>>

\* Leave that also forgets the socket's stream, whichever stream it left.
LeaveForgetsStream(id, agentId) ==
    /\ server # "exited"
    /\ id \in connected
    /\ agentViewers' = LeaveViewers(agentViewers, id, agentId)
    /\ socketToStream' = MapDelete(socketToStream, id)
    /\ emitter' = "leave_agent_stream"
    /\ emitted' = <<Event(agentId \o "_viewer_count",
                          [count |-> ViewerCount(SetDelete(agentViewers, agentId, id),
                                                 agentId)])>>
    /\ lastCall' = Call("leave", id, agentId)
    /\ prevCall' = lastCall
    /\ UNCHANGED <<connected, closed>>
    /\ UNCHANGED livenessVars
    /\ viewersResponse' = <<>>
    /\ UNCHANGED server
    /\ UNCHANGED <<flagged, engagementVars>>

\* socket.on('leave_agent_stream')
Leave(id, agentId) ==
    /\ server # "exited"
    /\ id \in connected
    /\ agentViewers' = LeaveViewers(agentViewers, id, agentId)
    /\ emitter' = "leave_agent_stream"
    /\ emitted' = <<Event(agentId \o "_viewer_count",
                          [count |-> ViewerCount(SetDelete(agentViewers, agentId, id),
                                                 agentId)])>>
    /\ lastCall' = Call("leave", id, agentId)
    /\ prevCall' = lastCall
    /\ UNCHANGED <<connected, closed, socketToStream>>
    /\ UNCHANGED livenessVars
    /\ viewersResponse' = <<>>
    /\ UNCHANGED server
    /\ UNCHANGED <<flagged, engagementVars>>

\* socket.on('disconnect')
Disconnect(id) ==
    /\ server # "exited"
    /\ id \in connected
    /\ LET agentId == MapGet(socketToStream, id)
       IN  IF Truthy(agentId)
           THEN /\ agentViewers' = SetDelete(agentViewers, agentId, id)
                /\ socketToStream' = MapDelete(socketToStream, id)
                /\ emitted' = emitStreamCounts(agentViewers')
           ELSE /\ UNCHANGED <<agentViewers, socketToStream>>
                /\ emitted' = <<>>
    /\ emitter' = "disconnect"
    /\ connected' = connected \ {id}
    /\ closed' = closed \cup {id}
    /\ lastCall' = Call("disconnect", id, Undefined)
    /\ prevCall' = lastCall
    /\ UNCHANGED livenessVars
    /\ viewersResponse' = <<>>
    /\ UNCHANGED server
    /\ UNCHANGED <<flagged, engagementVars>>

(***************************************************************************)
(* Readers of the presence maps                                            *)
(***************************************************************************)
\* Values of the :agentId route parameter (a path segment is never empty).
RouteIds == {a \in StreamIds : a # ""}

\* app.get('/api/agents/:agentId/viewers')
GetViewers(agentId) ==
    /\ server # "exited"
    /\ viewersResponse' =
          <<[agentId |-> agentId, count |-> ViewerCount(agentViewers, agentId)]>>
    /\ emitted' = <<>>
    /\ emitter' = "none"
    /\ UNCHANGED server
    /\ UNCHANGED presenceVars
    /\ UNCHANGED livenessVars
    /\ UNCHANGED <<flagged, engagementVars>>

\* agentViewers.entries(): a Map enumerates its keys in insertion order; the
\* function that stands for the Map keeps no order, and one order stands for
\* all of them (the events of a tick are emitted in one synchronous step).
EntriesOrder(viewers) == CHOOSE o \in Orders(DOMAIN viewers) : TRUE

\* CountEvents with the size of the Map for the size of each Set.
CountEventsMapSize(viewers, o) ==
    [k \in DOMAIN o |->
        Event(o[k] \o "_viewer_count", [count |-> Cardinality(DOMAIN viewers)])]

\* The io.emit calls of the viewer count interval, for the entries of
\* agentViewers enumerated in the order o.
CountEvents(viewers, o) ==
    [k \in DOMAIN o |->
        Event(o[k] \o "_viewer_count", [count |-> Cardinality(viewers[o[k]])])]

\* setInterval(..., 5000): "periodic ping to keep counts accurate"
CountSweep ==
    /\ server # "exited"
    /\ emitted' = CountEvents(agentViewers, EntriesOrder(agentViewers))
    /\ emitter' = "viewer count interval"
    /\ viewersResponse' = <<>>
    /\ UNCHANGED server
    /\ UNCHANGED presenceVars
    /\ UNCHANGED livenessVars
    /\ UNCHANGED <<flagged, engagementVars>>

(***************************************************************************)
(* Shutdown                                                                *)
(***************************************************************************)
\* What the 'disconnect' handlers of the sockets ids[1], ids[2], ... do, one
\* after the other, to the two maps, and the events they emit.
RECURSIVE CloseSockets(_, _, _, _)
CloseSockets(ids, viewers, streams, events) ==
    IF ids = <<>>
    THEN [viewers |-> viewers, streams |-> streams, events |-> events]
    ELSE LET id == Head(ids)
             agentId == MapGet(streams, id)
         IN  IF Truthy(agentId)
             THEN LET v == SetDelete(viewers, agentId, id)
                  IN  CloseSockets(Tail(ids), v, MapDelete(streams, id),
                                   events \o emitStreamCounts(v))
             ELSE CloseSockets(Tail(ids), viewers, streams, events)

\* gracefulShutdown (SIGTERM, SIGINT): io.emit('server_shutdown') and
\* io.close(), which closes every socket (their 'disconnect' handlers run)
\* and calls back once the server has closed.  Neither interval is cleared.
GracefulShutdown ==
    /\ server # "exited"
    /\ \E o \in Orders(connected) :
          LET r == CloseSockets(o, agentViewers, socketToStream, <<>>)
              calls == <<prevCall, lastCall>>
                          \o [k \in DOMAIN o |-> Call("disconnect", o[k], Undefined)]
          IN  /\ agentViewers' = r.viewers
              /\ socketToStream' = r.streams
              /\ emitted' = <<Event("server_shutdown",
                                    [message |-> "Server is shutting down"])>>
                               \o r.events
              /\ lastCall' = calls[Len(calls)]
              /\ prevCall' = calls[Len(calls) - 1]
    /\ emitter' = "gracefulShutdown"
    /\ connected' = {}
    /\ closed' = closed \cup connected
    /\ server' = "closing"
    /\ viewersResponse' = <<>>
    /\ UNCHANGED livenessVars
    /\ UNCHANGED <<flagged, engagementVars>>

\* The callback of io.close(): process.exit(0).
Exit ==
    /\ server = "closing"
    /\ server' = "exited"
    /\ UNCHANGED <<emitted, emitter, viewersResponse>>
    /\ UNCHANGED presenceVars
    /\ UNCHANGED livenessVars
    /\ UNCHANGED <<flagged, engagementVars>>

(***************************************************************************)
(* StreamingStatus collection and its writers                              *)
(***************************************************************************)
\* The fields of a StreamingStatus document that the cleanup job reads or
\* writes.
Doc(agentId, isStreaming, lastHeartbeat) ==
    [agentId |-> agentId, isStreaming |-> isStreaming,
     lastHeartbeat |-> lastHeartbeat]

\* Schema default of isStreaming, applied when an upsert inserts.
DefaultIsStreaming == FALSE

\* What a request body may carry in its isStreaming field.
BodyIsStreaming == {"absent", "true", "false"}

\* Date.now() moves on.
Tick ==
    /\ server # "exited"
    /\ now + ClockStep <= MaxTicks * ClockStep
    /\ now' = now + ClockStep
    /\ UNCHANGED <<streamingStatus, sweep, emitted, emitter>>
    /\ UNCHANGED presenceVars
    /\ UNCHANGED <<viewersResponse, server>>
    /\ UNCHANGED <<flagged, engagementVars>>

\* app.put('/api/scenes/:agentId'): $set of the body's fields and of
\* lastHeartbeat = now, upsert.
PutSceneDoc(status, agentId, bodyIsStreaming, t) ==
    LET isStreaming ==
            IF bodyIsStreaming = "absent"
            THEN IF agentId \in DOMAIN status
                 THEN status[agentId].isStreaming
                 ELSE DefaultIsStreaming
            ELSE bodyIsStreaming = "true"
    IN  Doc(agentId, isStreaming, t)

\* The $set of the uniqueness flags that the body carries (flag -> boolean);
\* findOneAndUpdate runs no pre-save hook.
SetFlags(flags, agentId, bodyFlags) ==
    [f \in Flags |->
        IF f \in DOMAIN bodyFlags
        THEN IF bodyFlags[f] THEN flags[f] \cup {agentId} ELSE flags[f] \ {agentId}
        ELSE flags[f]]

PutSceneFlags(agentId, bodyIsStreaming, bodyFlags) ==
    LET status == PutSceneDoc(streamingStatus, agentId, bodyIsStreaming, now)
        viewerCount == ViewerCount(agentViewers, agentId)
    IN  /\ server # "exited"
        /\ streamingStatus' = MapSet(streamingStatus, agentId, status)
        /\ flagged' = SetFlags(flagged, agentId, bodyFlags)
        /\ emitter' = "PUT /api/scenes/:agentId"
        /\ emitted' =
              <<Event("streaming_status_update",
                      [status |-> status, viewers |-> viewerCount]),
                Event(agentId \o "_heartbeat",
                      [timestamp |-> status.lastHeartbeat,
                       isStreaming |-> status.isStreaming,
                       viewers |-> viewerCount])>>
        /\ UNCHANGED <<now, sweep>>
        /\ UNCHANGED presenceVars
        /\ UNCHANGED <<viewersResponse, server>>
        /\ UNCHANGED engagementVars

\* A body without uniqueness flags.
PutScene(agentId, bodyIsStreaming) ==
    PutSceneFlags(agentId, bodyIsStreaming, <<>>)

\* StreamingStatusSchema.pre('save'): the save of a document of agentId that
\* has the flags fs is rejected when another document has one of them.
PreSaveRejects(flags, agentId, fs) ==
    \E f \in fs : flags[f] \ {agentId} # {}

\* app.post('/api/scenes'): new StreamingStatus({agentId, isStreaming: true,
\* lastHeartbeat: new Date(), ...otherData}).save().  agentId is unique, and
\* the pre-save hooks run; a rejected save answers 500 and changes nothing.
\* The hook's findOne and the insert are taken as one step.
PostScene(agentId, fs) ==
    /\ server # "exited"
    /\ agentId \notin DOMAIN streamingStatus
    /\ ~PreSaveRejects(flagged, agentId, fs)
    /\ streamingStatus' = MapSet(streamingStatus, agentId, Doc(agentId, TRUE, now))
    /\ flagged' = SetFlags(flagged, agentId, [f \in fs |-> TRUE])
    /\ emitted' = <<>>
    /\ emitter' = "none"
    /\ UNCHANGED <<now, sweep>>
    /\ UNCHANGED presenceVars
    /\ UNCHANGED <<viewersResponse, server>>
    /\ UNCHANGED engagementVars

\* socket.on('update_streaming_status'): sets isStreaming, title, startedAt,
\* updatedAt, upsert; lastHeartbeat takes its schema default (Date.now) on
\* insert and is left alone otherwise.
UpdateStatusDoc(status, agentId, isStreaming, t) ==
    Doc(agentId, isStreaming,
        IF agentId \in DOMAIN status THEN status[agentId].lastHeartbeat ELSE t)

UpdateStreamingStatus(id, agentId, isStreaming) ==
    /\ server # "exited"
    /\ id \in connected
    /\ LET status == UpdateStatusDoc(streamingStatus, agentId, isStreaming, now)
       IN  /\ streamingStatus' = MapSet(streamingStatus, agentId, status)
           /\ emitter' = "update_streaming_status"
           /\ emitted' = <<Event("streaming_status_update", status)>>
    /\ UNCHANGED <<now, sweep>>
    /\ UNCHANGED presenceVars
    /\ UNCHANGED <<viewersResponse, server>>
    /\ UNCHANGED <<flagged, engagementVars>>

(***************************************************************************)
(* Heartbeat cleanup job (setInterval, every 15 s)                         *)
(***************************************************************************)
NoEvents == [a \in AgentIds |-> [status |-> 0, heartbeat |-> 0]]

IdleSweep ==
    [pc |-> "idle", dateNow |-> 0, heartbeatThreshold |-> 0,
     inactiveAgents |-> <<>>,
     i |-> 1, failed |-> FALSE, published |-> NoEvents]

\* Inactive with $gt for $lt.
InactiveInverted(status, heartbeatThreshold) ==
    {a \in DOMAIN status :
        /\ status[a].isStreaming = TRUE
        /\ status[a].lastHeartbeat > heartbeatThreshold}

\* Inactive with $lte for $lt.
InactiveInclusive(status, heartbeatThreshold) ==
    {a \in DOMAIN status :
        /\ status[a].isStreaming = TRUE
        /\ status[a].lastHeartbeat <= heartbeatThreshold}

\* StreamingStatus.find({isStreaming: true, lastHeartbeat: {$lt: threshold}})
Inactive(status, heartbeatThreshold) ==
    {a \in DOMAIN status :
        /\ status[a].isStreaming = TRUE
        /\ status[a].lastHeartbeat < heartbeatThreshold}

\* SweepStart with a timeout of 60 s for 30 s.
SweepStartLongTimeout(w) ==
    /\ server # "exited"
    /\ sweep[w].pc \in {"idle", "done"}
    /\ sweep' = [sweep EXCEPT ![w] =
                    [IdleSweep EXCEPT !.pc = "find",
                                      !.dateNow = now,
                                      !.heartbeatThreshold = now - 2 * HeartbeatTimeout]]
    /\ UNCHANGED <<now, streamingStatus, emitted, emitter>>
    /\ UNCHANGED presenceVars
    /\ UNCHANGED <<viewersResponse, server>>
    /\ UNCHANGED <<flagged, engagementVars>>

\* SweepStart with no timeout: every streaming document older than now.
SweepStartNoTimeout(w) ==
    /\ server # "exited"
    /\ sweep[w].pc \in {"idle", "done"}
    /\ sweep' = [sweep EXCEPT ![w] =
                    [IdleSweep EXCEPT !.pc = "find",
                                      !.dateNow = now,
                                      !.heartbeatThreshold = now]]
    /\ UNCHANGED <<now, streamingStatus, emitted, emitter>>
    /\ UNCHANGED presenceVars
    /\ UNCHANGED <<viewersResponse, server>>
    /\ UNCHANGED <<flagged, engagementVars>>

\* The timer fires: heartbeatThreshold is computed and the query is issued.
SweepStart(w) ==
    /\ server # "exited"
    /\ sweep[w].pc \in {"idle", "done"}
    /\ sweep' = [sweep EXCEPT ![w] =
                    [IdleSweep EXCEPT !.pc = "find",
                                      !.dateNow = now,
                                      !.heartbeatThreshold = now - HeartbeatTimeout]]
    /\ UNCHANGED <<now, streamingStatus, emitted, emitter>>
    /\ UNCHANGED presenceVars
    /\ UNCHANGED <<viewersResponse, server>>
    /\ UNCHANGED <<flagged, engagementVars>>

\* SweepFind with the loop body publishing before it saves.
SweepFindEmitsFirst(w) ==
    /\ server # "exited"
    /\ sweep[w].pc = "find"
    /\ \E o \in Orders(Inactive(streamingStatus, sweep[w].heartbeatThreshold)) :
          sweep' = [sweep EXCEPT
                       ![w].inactiveAgents = [k \in DOMAIN o |-> streamingStatus[o[k]]],
                       ![w].pc = IF Len(o) = 0 THEN "done" ELSE "emit"]
    /\ UNCHANGED <<now, streamingStatus, emitted, emitter>>
    /\ UNCHANGED presenceVars
    /\ UNCHANGED <<viewersResponse, server>>
    /\ UNCHANGED <<flagged, engagementVars>>

\* await StreamingStatus.find(...) resolves.
SweepFind(w) ==
    /\ server # "exited"
    /\ sweep[w].pc = "find"
    /\ \E o \in Orders(Inactive(streamingStatus, sweep[w].heartbeatThreshold)) :
          sweep' = [sweep EXCEPT
                       ![w].inactiveAgents = [k \in DOMAIN o |-> streamingStatus[o[k]]],
                       ![w].pc = IF Len(o) = 0 THEN "done" ELSE "save"]
    /\ UNCHANGED <<now, streamingStatus, emitted, emitter>>
    /\ UNCHANGED presenceVars
    /\ UNCHANGED <<viewersResponse, server>>
    /\ UNCHANGED <<flagged, engagementVars>>

\* await StreamingStatus.find(...) rejects: caught by the job's try/catch.
SweepFindFails(w) ==
    /\ server # "exited"
    /\ sweep[w].pc = "find"
    /\ sweep' = [sweep EXCEPT ![w].pc = "done", ![w].failed = TRUE]
    /\ UNCHANGED <<now, streamingStatus, emitted, emitter>>
    /\ UNCHANGED presenceVars
    /\ UNCHANGED <<viewersResponse, server>>
    /\ UNCHANGED <<flagged, engagementVars>>

\* SaveDoc writing every path of the in-memory document, not the modified one.
SaveDocWhole(status, agent) ==
    [status EXCEPT ![agent.agentId] = [agent EXCEPT !.isStreaming = FALSE]]

\* agent.isStreaming = false; await agent.save() -- the save writes the
\* modified path isStreaming of the document, whatever its other fields are
\* by now.
SaveDoc(status, agent) ==
    [status EXCEPT ![agent.agentId].isStreaming = FALSE]

SweepSave(w) ==
    /\ server # "exited"
    /\ sweep[w].pc = "save"
    /\ LET agent == sweep[w].inactiveAgents[sweep[w].i]
       IN  /\ streamingStatus' = SaveDoc(streamingStatus, agent)
           /\ sweep' = [sweep EXCEPT
                           ![w].inactiveAgents[sweep[w].i].isStreaming = FALSE,
                           ![w].pc = "emit"]
    /\ UNCHANGED <<now, emitted, emitter>>
    /\ UNCHANGED presenceVars
    /\ UNCHANGED <<viewersResponse, server>>
    /\ UNCHANGED <<flagged, engagementVars>>

\* SweepSaveFails without the try/catch: the rejection leaves the callback.
SweepSaveFailsUncaught(w) ==
    /\ server # "exited"
    /\ sweep[w].pc = "save"
    /\ sweep' = [sweep EXCEPT
                    ![w].inactiveAgents[sweep[w].i].isStreaming = FALSE,
                    ![w].pc = "crashed", ![w].failed = TRUE]
    /\ UNCHANGED <<now, streamingStatus, emitted, emitter>>
    /\ UNCHANGED presenceVars
    /\ UNCHANGED <<viewersResponse, server>>
    /\ UNCHANGED <<flagged, engagementVars>>

\* await agent.save() rejects: caught by the job's try/catch, the loop ends.
SweepSaveFails(w) ==
    /\ server # "exited"
    /\ sweep[w].pc = "save"
    /\ sweep' = [sweep EXCEPT
                    ![w].inactiveAgents[sweep[w].i].isStreaming = FALSE,
                    ![w].pc = "done", ![w].failed = TRUE]
    /\ UNCHANGED <<now, streamingStatus, emitted, emitter>>
    /\ UNCHANGED presenceVars
    /\ UNCHANGED <<viewersResponse, server>>
    /\ UNCHANGED <<flagged, engagementVars>>

\* Documents whose agent.save() is rejected every time it is tried (a
\* pre-save uniqueness hook that finds another flagged document, say).
RejectedIds == {"A"}

\* The save of a document that the pre-save hooks let through.
SweepSaveAccepted(w) ==
    /\ sweep[w].pc = "save"
    /\ sweep[w].inactiveAgents[sweep[w].i].agentId \notin RejectedIds
    /\ SweepSave(w)

\* The save of a document that a pre-save hook rejects: next(new Error(...)).
SweepSaveRejected(w) ==
    /\ sweep[w].pc = "save"
    /\ sweep[w].inactiveAgents[sweep[w].i].agentId \in RejectedIds
    /\ SweepSaveFails(w)

\* The two io.emit calls after the save, and the loop's next iteration.
SweepEvents(agent) ==
    <<Event("streaming_status_update", agent),
      Event(agent.agentId \o "_heartbeat",
            [timestamp |-> agent.lastHeartbeat, isStreaming |-> FALSE])>>

SweepEmit(w) ==
    /\ server # "exited"
    /\ sweep[w].pc = "emit"
    /\ LET agent == sweep[w].inactiveAgents[sweep[w].i]
       IN  /\ emitter' = "heartbeat cleanup"
           /\ emitted' = SweepEvents(agent)
           /\ sweep' = [sweep EXCEPT
                 ![w].published[agent.agentId] =
                     [status |-> @.status
                         + Cardinality({k \in DOMAIN emitted' :
                               emitted'[k].name = "streaming_status_update"}),
                      heartbeat |-> @.heartbeat
                         + Cardinality({k \in DOMAIN emitted' :
                               emitted'[k].name = agent.agentId \o "_heartbeat"})],
                 ![w].i = @ + 1,
                 ![w].pc = IF sweep[w].i + 1 > Len(sweep[w].inactiveAgents)
                           THEN "done" ELSE "save"]
    /\ UNCHANGED <<now, streamingStatus>>
    /\ UNCHANGED presenceVars
    /\ UNCHANGED <<viewersResponse, server>>
    /\ UNCHANGED <<flagged, engagementVars>>

(***************************************************************************)
(* Likes and comments                                                      *)
(***************************************************************************)
Kinds == {"Like", "Comment"}

\* Handlers of a kind that are awaiting their save.
Pending(kind) ==
    LET RECURSIVE Sum(_)
        Sum(S) == IF S = {} THEN 0
                  ELSE LET a == CHOOSE x \in S : TRUE
                       IN  saving[kind][a] + Sum(S \ {a})
    IN  Sum(EventAgents)

\* socket.on('new_like'), up to `await like.save()`: likeCount++.
NewLike(id, agentId) ==
    /\ server # "exited"
    /\ id \in connected
    /\ likeCount < MaxEvents
    /\ stored.Like + Pending("Like") < MaxEvents
    /\ likeCount' = likeCount + 1
    /\ saving' = [saving EXCEPT !.Like[agentId] = @ + 1]
    /\ UNCHANGED <<commentCount, stored, flagged, emitted, emitter>>
    /\ UNCHANGED presenceVars
    /\ UNCHANGED livenessVars
    /\ UNCHANGED <<viewersResponse, server>>

\* like.save() resolves: the document is stored and the count is broadcast.
LikeSaved(agentId) ==
    /\ server # "exited"
    /\ saving.Like[agentId] > 0
    /\ saving' = [saving EXCEPT !.Like[agentId] = @ - 1]
    /\ stored' = [stored EXCEPT !.Like = @ + 1]
    /\ emitter' = "new_like"
    /\ emitted' = <<Event("like_received", [likes |-> likeCount])>>
                     \o (IF Truthy(agentId)
                         THEN <<Event(agentId \o "_like_received",
                                      [agentId |-> agentId])>>
                         ELSE <<>>)
    /\ UNCHANGED <<likeCount, commentCount, flagged>>
    /\ UNCHANGED presenceVars
    /\ UNCHANGED livenessVars
    /\ UNCHANGED <<viewersResponse, server>>

\* like.save() rejects: caught and logged; likeCount stays incremented.
LikeSaveFails(agentId) ==
    /\ server # "exited"
    /\ saving.Like[agentId] > 0
    /\ saving' = [saving EXCEPT !.Like[agentId] = @ - 1]
    /\ UNCHANGED <<likeCount, commentCount, stored, flagged, emitted, emitter>>
    /\ UNCHANGED presenceVars
    /\ UNCHANGED livenessVars
    /\ UNCHANGED <<viewersResponse, server>>

\* app.get('/api/likeCounts'): likeCount = await Like.countDocuments().
GetLikeCounts ==
    /\ server # "exited"
    /\ likeCount' = stored.Like
    /\ UNCHANGED <<commentCount, stored, saving, flagged, emitted, emitter>>
    /\ UNCHANGED presenceVars
    /\ UNCHANGED livenessVars
    /\ UNCHANGED <<viewersResponse, server>>

\* socket.on('new_comment'), up to `await newComment.save()`: commentCount++.
NewComment(id, agentId) ==
    /\ server # "exited"
    /\ id \in connected
    /\ commentCount < MaxEvents
    /\ stored.Comment + Pending("Comment") < MaxEvents
    /\ commentCount' = commentCount + 1
    /\ saving' = [saving EXCEPT !.Comment[agentId] = @ + 1]
    /\ UNCHANGED <<likeCount, stored, flagged, emitted, emitter>>
    /\ UNCHANGED presenceVars
    /\ UNCHANGED livenessVars
    /\ UNCHANGED <<viewersResponse, server>>

\* newComment.save() resolves: stored and broadcast.
CommentSaved(agentId) ==
    /\ server # "exited"
    /\ saving.Comment[agentId] > 0
    /\ saving' = [saving EXCEPT !.Comment[agentId] = @ - 1]
    /\ stored' = [stored EXCEPT !.Comment = @ + 1]
    /\ emitter' = "new_comment"
    /\ emitted' = <<Event("comment_received", [commentCount |-> commentCount])>>
                     \o (IF Truthy(agentId)
                         THEN <<Event(agentId \o "_comment_received",
                                      [commentCount |-> commentCount])>>
                         ELSE <<>>)
    /\ UNCHANGED <<likeCount, commentCount, flagged>>
    /\ UNCHANGED presenceVars
    /\ UNCHANGED livenessVars
    /\ UNCHANGED <<viewersResponse, server>>

\* filterProfanity or newComment.save() throws: caught and logged;
\* commentCount stays incremented.
CommentSaveFails(agentId) ==
    /\ server # "exited"
    /\ saving.Comment[agentId] > 0
    /\ saving' = [saving EXCEPT !.Comment[agentId] = @ - 1]
    /\ UNCHANGED <<likeCount, commentCount, stored, flagged, emitted, emitter>>
    /\ UNCHANGED presenceVars
    /\ UNCHANGED livenessVars
    /\ UNCHANGED <<viewersResponse, server>>

\* app.get('/api/commentCounts'): commentCount = await Comment.countDocuments().
GetCommentCounts ==
    /\ server # "exited"
    /\ commentCount' = stored.Comment
    /\ UNCHANGED <<likeCount, stored, saving, flagged, emitted, emitter>>
    /\ UNCHANGED presenceVars
    /\ UNCHANGED livenessVars
    /\ UNCHANGED <<viewersResponse, server>>

(***************************************************************************)
(* Initial state and specifications                                        *)
(***************************************************************************)
InitPresence ==
    /\ connected = {}
    /\ closed = {}
    /\ agentViewers = EmptyMap
    /\ socketToStream = EmptyMap
    /\ emitted = <<>>
    /\ emitter = "none"
    /\ viewersResponse = <<>>
    /\ server = "running"
    /\ lastCall = Call("none", 0, Undefined)
    /\ prevCall = Call("none", 0, Undefined)

InitLiveness ==
    /\ now = 0
    /\ streamingStatus = EmptyMap
    /\ sweep = [w \in RunIds |-> IdleSweep]

\* likeCount and commentCount are loaded from countDocuments() of the (here
\* empty) collections once the connection to the store is up.
InitEngagement ==
    /\ flagged = [f \in Flags |-> {}]
    /\ likeCount = 0
    /\ commentCount = 0
    /\ stored = [Like |-> 0, Comment |-> 0]
    /\ saving = [k \in Kinds |-> [a \in EventAgents |-> 0]]

Init == InitPresence /\ InitLiveness /\ InitEngagement

NextPresence ==
    \/ \E id \in SocketIds : Connect(id)
    \/ \E id \in SocketIds, agentId \in StreamIds : Join(id, agentId)
    \/ \E id \in SocketIds, agentId \in StreamIds : Leave(id, agentId)
    \/ \E id \in SocketIds : Disconnect(id)

SpecPresence == Init /\ [][NextPresence]_vars

NextViewers ==
    \/ NextPresence
    \/ \E agentId \in RouteIds : GetViewers(agentId)

SpecViewers == Init /\ [][NextViewers]_vars

NextCounts ==
    \/ NextPresence
    \/ CountSweep

SpecCounts == Init /\ [][NextCounts]_vars

\* The socket handlers and the two synchronous readers of agentViewers.
NextReaders ==
    \/ NextPresence
    \/ \E agentId \in RouteIds : GetViewers(agentId)
    \/ CountSweep

SpecReaders == Init /\ [][NextReaders]_vars

NextShutdown ==
    \/ \E id \in SocketIds : Connect(id)
    \/ \E id \in SocketIds, agentId \in StreamIds : Join(id, agentId)
    \/ CountSweep
    \/ \E w \in SweepIds : SweepStart(w)
    \/ \E w \in SweepIds : SweepFind(w)
    \/ GracefulShutdown
    \/ Exit

SpecShutdown == Init /\ [][NextShutdown]_vars

\* The cleanup job with a store that never fails, where the save of the
\* documents in RejectedIds is rejected by a pre-save hook every time; timer
\* callbacks and store operations that can proceed do proceed.
NextRejected ==
    \/ Tick
    \/ \E agentId \in AgentIds : PutScene(agentId, "true")
    \/ \E w \in SweepIds : SweepStart(w)
    \/ \E w \in SweepIds : SweepFind(w)
    \/ \E w \in SweepIds : SweepSaveAccepted(w)
    \/ \E w \in SweepIds : SweepSaveRejected(w)
    \/ \E w \in SweepIds : SweepEmit(w)

SpecRejected ==
    /\ Init
    /\ [][NextRejected]_vars
    /\ \A w \in SweepIds :
          /\ WF_vars(SweepStart(w))
          /\ WF_vars(SweepFind(w))
          /\ WF_vars(SweepSaveAccepted(w))
          /\ WF_vars(SweepSaveRejected(w))
          /\ WF_vars(SweepEmit(w))

\* The handlers of one socket, the viewer count interval, the heartbeats of
\* one agent and the cleanup job, interleaved.
NextOrthogonal ==
    \/ Connect(1)
    \/ \E agentId \in StreamIds : Join(1, agentId)
    \/ \E agentId \in StreamIds : Leave(1, agentId)
    \/ Disconnect(1)
    \/ CountSweep
    \/ Tick
    \/ PutScene("A", "true")
    \/ \E w \in SweepIds : SweepStart(w)
    \/ \E w \in SweepIds : SweepFind(w)
    \/ \E w \in SweepIds : SweepSave(w)
    \/ \E w \in SweepIds : SweepEmit(w)

SpecOrthogonal == Init /\ [][NextOrthogonal]_vars

\* The cleanup job on its timer: the callback fires every SweepPeriod, the
\* store answers before the next tick of the timer and never fails.
SweepDue ==
    /\ now > 0
    /\ now % SweepPeriod = 0
    /\ \A w \in SweepIds : sweep[w].dateNow # now

\* Date.now() moves on, once the callback that was due has fired.
TimedTick ==
    /\ server # "exited"
    /\ ~SweepDue
    /\ now + ClockStep <= MaxPeriods * SweepPeriod
    /\ now' = now + ClockStep
    /\ UNCHANGED <<streamingStatus, sweep, emitted, emitter>>
    /\ UNCHANGED presenceVars
    /\ UNCHANGED <<viewersResponse, server>>
    /\ UNCHANGED <<flagged, engagementVars>>

TimedSweepStart(w) == SweepDue /\ SweepStart(w)

NextTimed ==
    \/ TimedTick
    \/ \E agentId \in AgentIds, b \in BodyIsStreaming : PutScene(agentId, b)
    \/ \E w \in SweepIds : TimedSweepStart(w)
    \/ \E w \in SweepIds : SweepFind(w)
    \/ \E w \in SweepIds : SweepSave(w)
    \/ \E w \in SweepIds : SweepEmit(w)

SpecTimed ==
    /\ Init
    /\ [][NextTimed]_vars
    /\ WF_vars(TimedTick)
    /\ \A w \in SweepIds :
          /\ WF_vars(TimedSweepStart(w))
          /\ WF_vars(SweepFind(w))
          /\ WF_vars(SweepSave(w))
          /\ WF_vars(SweepEmit(w))

\* Agents whose owner sends PUT /api/scenes/:agentId often enough for the
\* document's lastHeartbeat never to be more than HeartbeatTimeout old.
Regular == {"A"}

\* Date.now() moves on, no further than the heartbeats of Regular allow.
HeartbeatTick ==
    /\ \A a \in Regular \cap DOMAIN streamingStatus :
          (now + ClockStep) - streamingStatus[a].lastHeartbeat <= HeartbeatTimeout
    /\ Tick

NextHeartbeat ==
    \/ HeartbeatTick
    \/ \E agentId \in AgentIds, b \in BodyIsStreaming : PutScene(agentId, b)
    \/ \E w \in SweepIds : SweepStart(w)
    \/ \E w \in SweepIds : SweepFind(w)
    \/ \E w \in SweepIds : SweepSave(w)
    \/ \E w \in SweepIds : SweepEmit(w)

SpecHeartbeat == Init /\ [][NextHeartbeat]_vars

\* The time at which the socket event update_streaming_status arrives.
StatusUpdateAt == HeartbeatTimeout + ClockStep

\* update_streaming_status {isStreaming: true}, arriving at StatusUpdateAt.
StatusUpdateLive(id, agentId) ==
    /\ now = StatusUpdateAt
    /\ UpdateStreamingStatus(id, agentId, TRUE)

\* Documents are created and kept offline by PUT /api/scenes/:agentId (no
\* isStreaming in the body, or false); only the status update at
\* StatusUpdateAt sets isStreaming to true.
NextStatus ==
    \/ \E id \in SocketIds : Connect(id)
    \/ Tick
    \/ \E agentId \in AgentIds, b \in {"absent", "false"} : PutScene(agentId, b)
    \/ \E id \in SocketIds, agentId \in AgentIds : StatusUpdateLive(id, agentId)
    \/ \E w \in SweepIds : SweepStart(w)
    \/ \E w \in SweepIds : SweepFind(w)
    \/ \E w \in SweepIds : SweepSave(w)
    \/ \E w \in SweepIds : SweepEmit(w)

SpecStatus == Init /\ [][NextStatus]_vars

\* Two invocations of the cleanup callback that may overlap: the timer
\* fires again while the earlier invocation is awaiting the store.
NextOverlap ==
    \/ Tick
    \/ \E agentId \in AgentIds : PutScene(agentId, "true")
    \/ \E w \in RunIds : SweepStart(w)
    \/ \E w \in RunIds : SweepFind(w)
    \/ \E w \in RunIds : SweepSave(w)
    \/ \E w \in RunIds : SweepEmit(w)

SpecOverlap == Init /\ [][NextOverlap]_vars

\* Documents created and updated with uniqueness flags in the body.
NextFlags ==
    \/ \E agentId \in AgentIds, fs \in SUBSET Flags : PostScene(agentId, fs)
    \/ \E agentId \in AgentIds, f \in Flags, v \in BOOLEAN :
          PutSceneFlags(agentId, "absent", f :> v)

SpecFlags == Init /\ [][NextFlags]_vars

NextEngagement ==
    \/ \E id \in SocketIds : Connect(id)
    \/ \E id \in SocketIds, agentId \in EventAgents : NewLike(id, agentId)
    \/ \E agentId \in EventAgents : LikeSaved(agentId)
    \/ \E agentId \in EventAgents : LikeSaveFails(agentId)
    \/ GetLikeCounts
    \/ \E id \in SocketIds, agentId \in EventAgents : NewComment(id, agentId)
    \/ \E agentId \in EventAgents : CommentSaved(agentId)
    \/ \E agentId \in EventAgents : CommentSaveFails(agentId)
    \/ GetCommentCounts

SpecEngagement == Init /\ [][NextEngagement]_vars

NextLiveness ==
    \/ \E id \in SocketIds : Connect(id)
    \/ Tick
    \/ \E agentId \in AgentIds, b \in BodyIsStreaming : PutScene(agentId, b)
    \/ \E id \in SocketIds, agentId \in AgentIds, isStreaming \in BOOLEAN :
          UpdateStreamingStatus(id, agentId, isStreaming)
    \/ \E w \in SweepIds : SweepStart(w)
    \/ \E w \in SweepIds : SweepFind(w)
    \/ \E w \in SweepIds : SweepFindFails(w)
    \/ \E w \in SweepIds : SweepSave(w)
    \/ \E w \in SweepIds : SweepSaveFails(w)
    \/ \E w \in SweepIds : SweepEmit(w)

SpecLiveness == Init /\ [][NextLiveness]_vars

(***************************************************************************)
(* Presence properties                                                     *)
(***************************************************************************)
\* The streams whose viewer set holds the socket.
StreamsOf(id) == {a \in DOMAIN agentViewers : id \in agentViewers[a]}

\* C1: every socket with socketToStream[id] = s is a member of
\* agentViewers[s], after every join, leave and disconnect.
C1_MapsConsistent ==
    \A id \in DOMAIN socketToStream :
        /\ socketToStream[id] \in DOMAIN agentViewers
        /\ id \in agentViewers[socketToStream[id]]

\* C2: every key of agentViewers maps to a non-empty set, after every join,
\* leave and disconnect.
C2_NoEmptyEntries ==
    \A a \in DOMAIN agentViewers : agentViewers[a] # {}

\* C3: a socket is a member of at most one stream's viewer set, whatever
\* stream identifiers the clients send.
C3_AtMostOneStream ==
    \A id \in SocketIds : Cardinality(StreamsOf(id)) <= 1

\* C4: join(id, s1) directly followed by join(id, s2), s1 # s2, lowers the
\* viewer count of s1 by one, raises that of s2 by one and removes id from
\* the viewer set of s1.
C4_SwitchMovesOneViewer ==
    [][\A id \in SocketIds, s1, s2 \in StreamIds :
          (/\ s1 # s2
           /\ lastCall = Call("join", id, s1)
           /\ lastCall' = Call("join", id, s2))
          => /\ ViewerCount(agentViewers', s1) = ViewerCount(agentViewers, s1) - 1
             /\ ViewerCount(agentViewers', s2) = ViewerCount(agentViewers, s2) + 1
             /\ s1 \in DOMAIN agentViewers' => id \notin agentViewers'[s1]
      ]_vars

\* C5: after disconnect(id), id is a member of no viewer set and the viewer
\* count of the stream it was watching is one less than before.
C5_DisconnectCleansUp ==
    [][\A id \in SocketIds :
          (id \in connected /\ id \in closed')
          => /\ \A a \in DOMAIN agentViewers' : id \notin agentViewers'[a]
             /\ id \in DOMAIN socketToStream
                => ViewerCount(agentViewers', socketToStream[id])
                     = ViewerCount(agentViewers, socketToStream[id]) - 1
      ]_vars

\* C6: the mapping of every stream_counts event holds exactly the streams
\* with at least one viewer, each with its number of viewers, and no zero;
\* it is empty once every socket that joined has disconnected.
C6_CountsOnlyWatchedStreams ==
    \A k \in DOMAIN emitted :
        emitted[k].name = "stream_counts"
        => /\ DOMAIN emitted[k].payload
                = {a \in StreamIds : ViewerCount(agentViewers, a) >= 1}
           /\ \A a \in DOMAIN emitted[k].payload :
                 /\ emitted[k].payload[a] = ViewerCount(agentViewers, a)
                 /\ emitted[k].payload[a] # 0
           /\ (DOMAIN socketToStream = {} /\ connected = {})
                 => emitted[k].payload = EmptyMap

\* C10: a leave(id, s) that directly follows the same leave(id, s) changes
\* neither socketToStream nor agentViewers.
C10_LeaveIdempotent ==
    [][\A id \in SocketIds, s \in StreamIds :
          (/\ lastCall = Call("leave", id, s)
           /\ lastCall' = Call("leave", id, s)
           /\ prevCall' = lastCall)
          => /\ agentViewers' = agentViewers
             /\ socketToStream' = socketToStream
      ]_vars

\* Two identical leaves in a row by a socket that had joined the stream as
\* its only viewer: the first removed it and dropped the stream's entry.
C10_Witness ==
    /\ lastCall.op = "leave"
    /\ prevCall = lastCall
    /\ MapGet(socketToStream, lastCall.id) = lastCall.agentId
    /\ lastCall.agentId \notin DOMAIN agentViewers

(***************************************************************************)
(* Liveness properties                                                     *)
(***************************************************************************)
\* The agentIds of the documents a run of the cleanup job got from its query.
Found(run) == {run.inactiveAgents[k].agentId : k \in DOMAIN run.inactiveAgents}

\* The run has gone through its loop without a rejected find or save.
Completed(run) == run.pc = "done" /\ ~run.failed

\* The step is the resolution of run w's query.
FindStep(w) == sweep[w].pc = "find" /\ sweep'[w].pc \in {"save", "done"} /\ ~sweep'[w].failed

\* The step is the successful save of run w's current document.
SaveStep(w) == sweep[w].pc = "save" /\ sweep'[w].pc = "emit"

Current(w) == sweep[w].inactiveAgents[sweep[w].i]

OnceEach == [status |-> 1, heartbeat |-> 1]

\* C7: a document that is streaming and whose heartbeat is more than
\* HeartbeatTimeout older than the run's Date.now() when the query resolves
\* is returned by the query; the run's save of a returned document leaves it
\* with isStreaming = FALSE; and a run that completes without failure has
\* published exactly one streaming_status_update and exactly one
\* <agentId>_heartbeat (isStreaming false) for every returned document.
C7_StaleDemotedOnce ==
    /\ [][\A w \in SweepIds : FindStep(w) =>
            \A a \in DOMAIN streamingStatus :
               (/\ streamingStatus[a].isStreaming
                /\ sweep[w].dateNow - streamingStatus[a].lastHeartbeat > HeartbeatTimeout)
               => a \in Found(sweep'[w])]_vars
    /\ [][\A w \in SweepIds : SaveStep(w) =>
            ~streamingStatus'[Current(w).agentId].isStreaming]_vars
    /\ [](\A w \in SweepIds : Completed(sweep[w]) =>
            \A a \in Found(sweep[w]) : sweep[w].published[a] = OnceEach)

\* A completed run that found a document whose heartbeat was 35 s old and
\* demoted it.
C7_Witness ==
    \E w \in SweepIds :
        /\ Completed(sweep[w])
        /\ \E k \in DOMAIN sweep[w].inactiveAgents :
              LET agent == sweep[w].inactiveAgents[k]
              IN  /\ sweep[w].dateNow - agent.lastHeartbeat > HeartbeatTimeout
                  /\ sweep[w].published[agent.agentId] = OnceEach
                  /\ ~streamingStatus[agent.agentId].isStreaming

\* C8: a document whose heartbeat is at most HeartbeatTimeout old when the
\* query resolves (exactly HeartbeatTimeout included) is not returned by the
\* query, and no step of the run writes a document that the query did not
\* return or publishes an event for it.
C8_NoFalseDemotion ==
    /\ [][\A w \in SweepIds : FindStep(w) =>
            \A a \in DOMAIN streamingStatus :
               now - streamingStatus[a].lastHeartbeat <= HeartbeatTimeout
               => a \notin Found(sweep'[w])]_vars
    /\ [][\A w \in SweepIds : sweep'[w] # sweep[w] =>
            \A a \in DOMAIN streamingStatus \ Found(sweep'[w]) :
               /\ streamingStatus'[a] = streamingStatus[a]
               /\ sweep'[w].published[a] = NoEvents[a]
               /\ \A k \in DOMAIN emitted' : emitted' # emitted =>
                     emitted'[k].name # a \o "_heartbeat"]_vars

\* A run that started when a streaming document's heartbeat was exactly
\* HeartbeatTimeout old has completed and has left the document alone.
C8_Witness ==
    \E w \in SweepIds, a \in DOMAIN streamingStatus :
        /\ Completed(sweep[w])
        /\ sweep[w].dateNow = now
        /\ now - streamingStatus[a].lastHeartbeat = HeartbeatTimeout
        /\ streamingStatus[a].isStreaming
        /\ a \notin Found(sweep[w])
        /\ sweep[w].published[a] = NoEvents[a]

\* C9: a save by the cleanup job of a document whose lastHeartbeat has been
\* renewed since the run's query returned it does not take effect: the
\* document stays isStreaming = TRUE.
C9_RaceGuard ==
    [][\A w \in SweepIds :
          (/\ SaveStep(w)
           /\ streamingStatus[Current(w).agentId].isStreaming
           /\ streamingStatus[Current(w).agentId].lastHeartbeat
                 > Current(w).lastHeartbeat)
          => streamingStatus'[Current(w).agentId].isStreaming
      ]_vars

(***************************************************************************)
(* Properties of the readers                                               *)
(***************************************************************************)
\* The sockets that are members of the stream's viewer set.
Watching(a) ==
    {id \in SocketIds : a \in DOMAIN agentViewers /\ id \in agentViewers[a]}

\* C11: the count served by GET /api/agents/:agentId/viewers is the number
\* of sockets in the stream's viewer set, 0 for a stream agentViewers does
\* not track, and never negative.
C11_ViewerCountServed ==
    viewersResponse # <<>> =>
        LET res == viewersResponse[1]
        IN  /\ res.count = Cardinality(Watching(res.agentId))
            /\ res.agentId \notin DOMAIN agentViewers => res.count = 0
            /\ res.count >= 0

\* The endpoint has served the count of a stream that every socket watches.
C11_Witness ==
    /\ viewersResponse # <<>>
    /\ viewersResponse[1].count = MaxSockets
    /\ Watching(viewersResponse[1].agentId) = SocketIds

\* C14: the events of a tick of the viewer count interval are, for every
\* key of agentViewers and for no other stream, exactly one event named
\* <agentId>_viewer_count that carries the size of the stream's viewer set.
C14_CountSweepEvents ==
    emitter = "viewer count interval" =>
        /\ \A a \in DOMAIN agentViewers :
              Cardinality({k \in DOMAIN emitted :
                  emitted[k] = Event(a \o "_viewer_count",
                                     [count |-> Cardinality(Watching(a))])}) = 1
        /\ Len(emitted) = Cardinality(DOMAIN agentViewers)

\* A tick that published the counts of two streams that both have a viewer.
C14_Witness ==
    /\ emitter = "viewer count interval"
    /\ Len(emitted) = 2
    /\ DOMAIN agentViewers = {"A", "B"}
    /\ \A a \in DOMAIN agentViewers : agentViewers[a] # {}

\* The sockets that are members of the stream's viewer set in the Map.
WatchingIn(viewers, a) ==
    {id \in SocketIds : a \in DOMAIN viewers /\ id \in viewers[a]}

\* The event carries a viewer count of the stream.
CarriesCount(e, a) ==
    \/ e.name = "stream_counts" /\ a \in DOMAIN e.payload
    \/ e.name = a \o "_viewer_count"

\* The step changes who watches the stream.
MembershipChanges(a) ==
    WatchingIn(agentViewers', a) # WatchingIn(agentViewers, a)

C13_AggregateOnEveryChange ==
    [][(\E a \in StreamIds : MembershipChanges(a))
       => \E k \in DOMAIN emitted' : emitted'[k].name = "stream_counts"
      ]_vars

(***************************************************************************)
(* Shutdown properties                                                     *)
(***************************************************************************)
\* C15: once gracefulShutdown has run, no tick of the viewer count interval
\* emits and no run of the heartbeat cleanup job takes a step.
C15_NoSweepAfterShutdown ==
    [][server # "running"
       => /\ sweep' = sweep
          /\ <<emitted, emitter>>' # <<emitted, emitter>>
                => emitter' # "viewer count interval"
      ]_vars

(***************************************************************************)
(* Heartbeat cleanup: failures and frame                                   *)
(***************************************************************************)
\* A step in which the find or a save of run w rejects.
FailStep(w) == ~sweep[w].failed /\ sweep'[w].failed

\* C16: a rejected find or save ends that run of the cleanup job and nothing
\* else: the step changes no document, no map and emits nothing, the run is
\* over, the timer can fire again, and the only step the job takes next is a
\* fresh run that issues the query again.
C16_SweepFailureIsolated ==
    /\ [](\A w \in SweepIds :
             sweep[w].failed => sweep[w].pc = "done" /\ ENABLED SweepStart(w))
    /\ [][\A w \in SweepIds :
             /\ FailStep(w) =>
                   /\ UNCHANGED <<streamingStatus, emitted, emitter, server>>
                   /\ UNCHANGED presenceVars
             /\ sweep[w].failed /\ sweep'[w] # sweep[w] =>
                   /\ sweep'[w].pc = "find"
                   /\ ~sweep'[w].failed
                   /\ sweep'[w].dateNow = now
                   /\ (ENABLED SweepFind(w))'
         ]_vars

\* A save has been rejected: the run is over with a document still live.
C16_Witness ==
    \E w \in SweepIds :
        /\ sweep[w].failed
        /\ sweep[w].inactiveAgents # <<>>
        /\ \E k \in DOMAIN sweep[w].inactiveAgents :
              LET a == sweep[w].inactiveAgents[k].agentId
              IN  a \in DOMAIN streamingStatus /\ streamingStatus[a].isStreaming

\* A step of the cleanup job.
SweepStep == \E w \in SweepIds : sweep'[w] # sweep[w]

\* C17: a step of the cleanup job creates no document, changes no
\* lastHeartbeat and never turns isStreaming from false to true; all it ever
\* does to a document is set isStreaming to false.
C17_OnlyDemotes ==
    [][SweepStep =>
          /\ DOMAIN streamingStatus' = DOMAIN streamingStatus
          /\ \A a \in DOMAIN streamingStatus :
                /\ streamingStatus'[a].lastHeartbeat = streamingStatus[a].lastHeartbeat
                /\ streamingStatus'[a].isStreaming => streamingStatus[a].isStreaming
      ]_vars

\* The job has saved a document whose lastHeartbeat had moved on since the
\* query read it: the document is offline and keeps the newer lastHeartbeat.
C17_Witness ==
    \E w \in SweepIds :
        /\ sweep[w].pc = "emit"
        /\ LET agent == Current(w)
           IN  /\ ~streamingStatus[agent.agentId].isStreaming
               /\ streamingStatus[agent.agentId].lastHeartbeat > agent.lastHeartbeat

(***************************************************************************)
(* StreamingStatus writers                                                 *)
(***************************************************************************)
\* C18: a step that creates the document of an agent (the upsert of
\* PUT /api/scenes/:agentId or of update_streaming_status inserting) leaves
\* it with isStreaming = true.
C18_CreatedLive ==
    [][\A a \in AgentIds :
          a \notin DOMAIN streamingStatus /\ a \in DOMAIN streamingStatus'
             => streamingStatus'[a].isStreaming
      ]_vars

(***************************************************************************)
(* Leave and disconnect: frame                                             *)
(***************************************************************************)
\* C19: leave_agent_stream(s) by a socket that is not in the set of s (no
\* entry for s, or the socket watches nothing or another stream) is handled
\* without error, leaves socketToStream as it was, and leaves the viewers of
\* every stream as they were; at most an entry with an empty set goes away.
C19_TolerantLeave ==
    /\ [](\A id \in connected, s \in StreamIds : ENABLED Leave(id, s))
    /\ [][\A id \in SocketIds, s \in StreamIds :
             (/\ id \notin WatchingIn(agentViewers, s)
              /\ lastCall' = Call("leave", id, s)
              /\ prevCall' = lastCall)
             => /\ socketToStream' = socketToStream
                /\ \A a \in StreamIds :
                      /\ WatchingIn(agentViewers', a) = WatchingIn(agentViewers, a)
                      /\ WatchingIn(agentViewers, a) # {}
                            => /\ a \in DOMAIN agentViewers'
                               /\ agentViewers'[a] = agentViewers[a]
         ]_vars

\* A socket that had just joined one stream left another one, which has a
\* viewer: its own stream and the other stream's viewer are still there.
C19_Witness ==
    /\ lastCall.op = "leave" /\ prevCall.op = "join"
    /\ prevCall.id = lastCall.id
    /\ Truthy(lastCall.agentId) /\ Truthy(prevCall.agentId)
    /\ lastCall.agentId # prevCall.agentId
    /\ MapGet(socketToStream, lastCall.id) = prevCall.agentId
    /\ lastCall.id \in Watching(prevCall.agentId)
    /\ Watching(lastCall.agentId) # {}

\* C20: a socket that has disconnected has no entry in socketToStream.
C20_DisconnectForgetsSocket ==
    \A id \in closed : id \notin DOMAIN socketToStream

(***************************************************************************)
(* Heartbeat cleanup: order of save and events                             *)
(***************************************************************************)
\* C21: a run of the cleanup job reaches the two io.emit calls for a document
\* only by a resolved save that has written isStreaming = false to it; the
\* events it publishes are those of that document; and a rejected save
\* publishes nothing, so the document whose save was rejected has no event
\* in that run.
C21_PersistBeforePublish ==
    /\ [][\A w \in SweepIds :
             /\ sweep[w].pc # "emit" /\ sweep'[w].pc = "emit"
                   => /\ sweep[w].pc = "save"
                      /\ ~streamingStatus'[Current(w).agentId].isStreaming
             /\ \A a \in AgentIds :
                   (/\ sweep'[w].published[a] # sweep[w].published[a]
                    /\ sweep'[w].pc # "find")
                   => /\ sweep[w].pc = "emit"
                      /\ Current(w).agentId = a
             /\ FailStep(w)
                   => /\ sweep'[w].published = sweep[w].published
                      /\ UNCHANGED <<emitted, emitter>>
         ]_vars
    /\ [](\A w \in SweepIds :
             sweep[w].failed /\ sweep[w].inactiveAgents # <<>>
                => sweep[w].published[Current(w).agentId]
                      = NoEvents[Current(w).agentId])

\* A run found two documents, saved the first and published its events, and
\* the save of the second was rejected.
C21_Witness ==
    \E w \in SweepIds :
        /\ sweep[w].failed
        /\ Len(sweep[w].inactiveAgents) = 2
        /\ sweep[w].i = 2
        /\ sweep[w].published[sweep[w].inactiveAgents[1].agentId] = OnceEach
        /\ sweep[w].published[Current(w).agentId] = NoEvents[Current(w).agentId]

(***************************************************************************)
(* Heartbeat cleanup: a document whose save keeps being rejected           *)
(***************************************************************************)
\* The document of a is streaming with a heartbeat older than the timeout.
StaleLive(a) ==
    /\ a \in DOMAIN streamingStatus
    /\ streamingStatus[a].isStreaming
    /\ now - streamingStatus[a].lastHeartbeat > HeartbeatTimeout

\* C22: whatever happens to the documents whose save is rejected, a stale
\* streaming document whose save is accepted is eventually demoted (or gets
\* a new heartbeat) by the runs of the cleanup job.
C22_OthersStillDemoted ==
    \A a \in AgentIds \ RejectedIds : StaleLive(a) ~> ~StaleLive(a)

(***************************************************************************)
(* Presence and liveness                                                   *)
(***************************************************************************)
\* A step of a socket handler or of the viewer count interval.
PresenceStep ==
    \/ <<connected, agentViewers, socketToStream, lastCall, prevCall>>'
          # <<connected, agentViewers, socketToStream, lastCall, prevCall>>
    \/ emitter' = "viewer count interval" /\ <<emitted, emitter>>' # <<emitted, emitter>>

\* join, leave, disconnect and the viewer count interval leave every
\* StreamingStatus document as it is.
PresenceKeepsStatus == [][PresenceStep => streamingStatus' = streamingStatus]_vars

\* The cleanup job leaves agentViewers and socketToStream as they are.
CleanupKeepsPresence ==
    [][SweepStep => UNCHANGED <<agentViewers, socketToStream>>]_vars

\* No step of a socket handler, of the viewer count interval or of the
\* cleanup job makes a streaming document with no viewers and a heartbeat
\* within the timeout stop streaming.
FreshUnwatchedStaysLive ==
    [][PresenceStep \/ SweepStep =>
          \A a \in DOMAIN streamingStatus :
             (/\ streamingStatus[a].isStreaming
              /\ ViewerCount(agentViewers, a) = 0
              /\ now - streamingStatus[a].lastHeartbeat <= HeartbeatTimeout)
             => streamingStatus'[a].isStreaming
      ]_vars

\* C23: presence handlers and the viewer count interval never change a
\* document's isStreaming or lastHeartbeat, the cleanup job never changes
\* socketToStream or agentViewers, and a streaming document with no viewers
\* and a fresh heartbeat stays streaming.
C23_Orthogonal ==
    /\ PresenceKeepsStatus
    /\ CleanupKeepsPresence
    /\ FreshUnwatchedStaysLive

(***************************************************************************)
(* Readers of agentViewers                                                 *)
(***************************************************************************)
\* The streams with a truthy identifier in whose set the socket is.
TruthyStreamsOf(id) == {a \in StreamIds : Truthy(a) /\ id \in Watching(a)}

\* C24: the maps a reader can find are those left by whole handlers.  As long
\* as a join is the last call handled, its socket is in the set of the stream
\* it joined, is mapped to it and is in the set of no other (truthy) stream;
\* after a leave the socket is not in the set it left; after a disconnect
\* the socket is in no (truthy) stream's set.  The viewers route and the
\* viewer count interval report the maps of the state they run in and leave
\* them as they are.
C24_ReadersSeeWholeHandlers ==
    /\ [](\A id \in SocketIds, s \in StreamIds :
             /\ lastCall = Call("join", id, s)
                   => /\ id \in Watching(s)
                      /\ MapGet(socketToStream, id) = s
                      /\ TruthyStreamsOf(id) \subseteq {s}
             /\ lastCall = Call("leave", id, s) => id \notin Watching(s)
             /\ lastCall = Call("disconnect", id, Undefined)
                   => id \notin connected /\ TruthyStreamsOf(id) = {})
    /\ [][/\ viewersResponse' # <<>>
             => /\ UNCHANGED <<agentViewers, socketToStream>>
                /\ viewersResponse'[1].count
                      = Cardinality(Watching(viewersResponse'[1].agentId))
          /\ (emitter' = "viewer count interval"
              /\ <<emitted, emitter>>' # <<emitted, emitter>>)
             => /\ UNCHANGED <<agentViewers, socketToStream>>
                /\ \A a \in DOMAIN agentViewers :
                      \E k \in DOMAIN emitted' :
                         /\ emitted'[k].name = a \o "_viewer_count"
                         /\ emitted'[k].payload.count = Cardinality(Watching(a))
         ]_vars

\* A socket has switched from one stream to another and the viewers route
\* has then been asked about the stream it left: the socket is counted in
\* the new stream only.
C24_Witness ==
    /\ lastCall.op = "join" /\ prevCall.op = "join"
    /\ lastCall.id = prevCall.id
    /\ Truthy(prevCall.agentId) /\ Truthy(lastCall.agentId)
    /\ lastCall.agentId # prevCall.agentId
    /\ viewersResponse # <<>>
    /\ viewersResponse[1].agentId = prevCall.agentId
    /\ viewersResponse[1].count = 0
    /\ TruthyStreamsOf(lastCall.id) = {lastCall.agentId}

(***************************************************************************)
(* Heartbeat cleanup on its timer                                          *)
(***************************************************************************)
\* Run w started more than HeartbeatTimeout after the heartbeat of a.
StartedAfterTimeout(w, a) ==
    sweep[w].dateNow - streamingStatus[a].lastHeartbeat > HeartbeatTimeout

C27_LiveForTimeoutAfterUpdate ==
    [][\A w \in SweepIds :
          (/\ SaveStep(w)
           /\ streamingStatus[Current(w).agentId].isStreaming
           /\ ~streamingStatus'[Current(w).agentId].isStreaming)
          => now - StatusUpdateAt > HeartbeatTimeout
      ]_vars

(***************************************************************************)
(* Overlapping runs of the cleanup job                                     *)
(***************************************************************************)
\* Run w has published offline events for the document of agentId that it
\* read with this lastHeartbeat.
PublishedFor(w, agentId, lastHeartbeat) ==
    /\ sweep[w].published[agentId].status > 0
    /\ \E k \in DOMAIN sweep[w].inactiveAgents :
          /\ sweep[w].inactiveAgents[k].agentId = agentId
          /\ sweep[w].inactiveAgents[k].lastHeartbeat = lastHeartbeat

\* C28: when invocations of the cleanup callback overlap, no invocation
\* publishes the offline events of a document (read streaming, with the
\* same lastHeartbeat) for which another invocation has published them
\* already: one transition to offline, one pair of events.
C28_NoDuplicateDemotion ==
    [][\A w \in RunIds, other \in RunIds :
          (/\ other # w
           /\ sweep[w].pc = "emit"
           /\ sweep'[w].published # sweep[w].published)
          => ~PublishedFor(other, Current(w).agentId, Current(w).lastHeartbeat)
      ]_vars

(***************************************************************************)
(* Uniqueness flags, likes and comments                                    *)
(***************************************************************************)
\* C29: at most one document has isAiko true, at most one has isBall true
\* and at most one has isDegenSpartanAI true.
C29_SingletonFlags == \A f \in Flags : Cardinality(flagged[f]) <= 1

\* C30: the likes broadcast in like_received and the commentCount broadcast
\* in comment_received are the numbers of documents in the Like and Comment
\* collections when the event is emitted.
C30_CountersTrackStore ==
    [][/\ (emitter' = "new_like" /\ stored'.Like # stored.Like)
             => emitted'[1].payload.likes = stored'.Like
       /\ (emitter' = "new_comment" /\ stored'.Comment # stored.Comment)
             => emitted'[1].payload.commentCount = stored'.Comment
      ]_vars

====
